---- MODULE Spec2Model ----
(***************************************************************************)
(* Model of the particle choreography controller of the Christmas-tree     *)
(* application: the mutable state bag of Experience (stateRef), the        *)
(* gesture cycle (processGestures), the render tick (animate), the photo   *)
(* manager exposed through useImperativeHandle, and the part of App that   *)
(* mirrors mode and photos.                                                *)
(*                                                                         *)
(* Units.  Landmark coordinates and hand.x / hand.y are in thousandths     *)
(* (0.18 is 180).  Times (Date.now(), dt, life, maxLife) are in            *)
(* milliseconds.  Rotations are in milliradians.  A Math.random() draw is  *)
(* the fraction k / RandDen with k in 0 .. RandDen-1.                      *)
(***************************************************************************)
EXTENDS Integers, Sequences, FiniteSets, TLC

(***************************************************************************)
(* Bounds of the model.                                                    *)
(***************************************************************************)
\* number of addPhoto calls explored
MaxAdds == 2
\* number of render ticks explored
MaxFrames == 2
\* the same two bounds in the specification of every operation
ModeAdds == 1
ModeFrames == 1
\* Date.now() at mount, and the latest Date.now() explored
StartTime == 1000
MaxTime == 1900
\* sizes of the ornament and dust loops (CONFIG.particles.count / dustCount
\* scaled down)
OrnamentCount == 1
DustCount == 1
\* denominator of the Math.random() draws
RandDen == 4
\* denominator of the Math.random() draw that sizes a burst
CountDen == 40
\* the draws explored for the size of a burst and for a particle's maxLife
BurstDraws == {0}
\* every draw for the size of a burst
CountDraws == 0 .. CountDen - 1

\* Date.now() differences between two gesture cycles (0: the same
\* millisecond): the fine steps of the firework specification, the coarse
\* steps of the render specification, and the single instant at which the
\* cycles interleaved with the photo manager run (the burst gate is then
\* open for the first peace cycle and closed for the later ones)
TimeSteps == {0, 300, 500}
CoarseSteps == {0, 600}
SameInstant == {0}
\* render-tick deltas (clock.getDelta()); those of the fading of a burst
Dts == {500}
FadeDts == {300, 500}
\* render-tick deltas of the specification of the particle motion
\* (lerpSpeed * dt = 0.2 and 0.8 for lerpSpeed 2.0)
MotionDts == {100, 400}
\* the urls handed to addPhoto
Urls == {"data:a"}
\* the photos the store holds from earlier sessions, by timestamp
PriorLists ==
    {<<>>,
     <<[id |-> <<"saved", 1>>, url |-> "data:a"]>>,
     <<[id |-> <<"saved", 1>>, url |-> "data:a"],
       [id |-> <<"saved", 2>>, url |-> "data:b"]>>}

(***************************************************************************)
(* Program constants.                                                      *)
(***************************************************************************)
Null == 0
FistThreshold == 180
PinchThreshold == 45
PinchOpenThreshold == 280
ScatterThreshold == 400
PeaceMinDist == 250
PeaceGap == 150
DebounceMs == 500
Modes == {"TREE", "SCATTER", "FOCUS"}
Undefined == "undefined"
Idle == "idle"
DefaultPhotoId == <<"default-photo", 0>>
NoId == <<"none", 0>>

(***************************************************************************)
(* Arithmetic helpers.                                                     *)
(***************************************************************************)
Abs(n) == IF n < 0 THEN 0 - n ELSE n

RECURSIVE SqrtSearch(_, _, _)
SqrtSearch(n, lo, hi) ==
    IF lo >= hi THEN lo
    ELSE LET mid == (lo + hi + 1) \div 2
         IN  IF mid * mid <= n THEN SqrtSearch(n, mid, hi)
             ELSE SqrtSearch(n, lo, mid - 1)

\* Math.hypot on thousandths, rounded down to a thousandth
Hypot(dx, dy) == SqrtSearch(dx * dx + dy * dy, 0, 2000)

\* Math.floor(Math.random() * len) for the draw k / RandDen
RandomIndex(k, len) == (k * len) \div RandDen

\* n / d rounded to the nearest integer: where a double operation rounds
\* to the nearest double, the model rounds to the nearest thousandth
RoundDiv(n, d) == (2 * n + d) \div (2 * d)

\* THREE.Vector3, in thousandths
Vec(vx, vy, vz) == [x |-> vx, y |-> vy, z |-> vz]

\* faulty variant: the step is twice as long
LerpTwice(a, b, num, den) ==
    Vec(a.x + RoundDiv((b.x - a.x) * 2 * num, den),
        a.y + RoundDiv((b.y - a.y) * 2 * num, den),
        a.z + RoundDiv((b.z - a.z) * 2 * num, den))

\* Vector3.lerp(v, alpha) with alpha = num / den:
\* this.x += (v.x - this.x) * alpha, and so for y and z
Lerp(a, b, num, den) ==
    Vec(a.x + RoundDiv((b.x - a.x) * num, den),
        a.y + RoundDiv((b.y - a.y) * num, den),
        a.z + RoundDiv((b.z - a.z) * num, den))

\* Math.sin and Math.cos of an angle in milliradians, in thousandths: the
\* angle is reduced to [-pi/2, pi/2] and the series is summed to x^7
Pi == 3142
SinSeries(a) ==
    LET a2 == (a * a) \div 1000
        t3 == (a * a2) \div 1000
        t5 == (t3 * a2) \div 1000
        t7 == (t5 * a2) \div 1000
    IN  a - t3 \div 6 + t5 \div 120 - t7 \div 5040

Sin(a) ==
    LET r == a % (2 * Pi)
        half == IF r > Pi THEN r - 2 * Pi ELSE r
    IN  IF 2 * half > Pi THEN SinSeries(Pi - half)
        ELSE IF 2 * half < 0 - Pi THEN SinSeries(0 - Pi - half)
        ELSE SinSeries(half)

Cos(a) == Sin(a + Pi \div 2)

(***************************************************************************)
(* Hand landmarks: the inputs of a gesture cycle.                          *)
(***************************************************************************)
Pt(px, py) == [x |-> px, y |-> py]

\* the seven landmarks the code reads, by MediaPipe index
Landmarks(wrist, thumb, index, middle, ring, pinky, palm) ==
    (0 :> wrist @@ 4 :> thumb @@ 8 :> index @@ 9 :> palm @@ 12 :> middle
       @@ 16 :> ring @@ 20 :> pinky)

Wrist == Pt(100, 500)

\* closed fist: tips close to the palm centre
PoseFist ==
    Landmarks(Wrist, Pt(300, 500), Pt(450, 500), Pt(440, 500), Pt(430, 500),
              Pt(420, 500), Pt(435, 500))
\* pinch: thumb on index, hand half open (pinchDist 20, avgDist 350)
PosePinch ==
    Landmarks(Wrist, Pt(520, 520), Pt(520, 500), Pt(470, 500), Pt(420, 500),
              Pt(390, 500), Pt(200, 500))
\* pinch with ring and pinky curled: pinch and peace both hold
PosePinchPeace ==
    Landmarks(Wrist, Pt(540, 500), Pt(520, 500), Pt(520, 500), Pt(350, 500),
              Pt(350, 500), Pt(200, 500))
\* peace sign, thumb away
PosePeace ==
    Landmarks(Wrist, Pt(300, 500), Pt(520, 500), Pt(520, 500), Pt(350, 500),
              Pt(350, 500), Pt(200, 500))
\* peace sign with long fingers: avgDist above the scatter threshold
PosePeaceOpen ==
    Landmarks(Wrist, Pt(300, 500), Pt(800, 500), Pt(800, 500), Pt(580, 500),
              Pt(580, 500), Pt(200, 500))
\* peace sign with the palm centre between the tips: fist and peace both hold
PoseFistPeace ==
    Landmarks(Wrist, Pt(300, 500), Pt(520, 500), Pt(520, 500), Pt(350, 500),
              Pt(350, 500), Pt(435, 500))
\* open hand (index tip off the axis: a 3-4-5 triangle)
PoseOpen ==
    Landmarks(Wrist, Pt(300, 500), Pt(400, 900), Pt(600, 500), Pt(600, 500),
              Pt(600, 500), Pt(200, 600))
\* relaxed hand: no rule matches
PoseRelaxed ==
    Landmarks(Wrist, Pt(300, 500), Pt(400, 500), Pt(400, 500), Pt(400, 500),
              Pt(400, 500), Pt(200, 500))

\* thumb on index with the fingers half curled, every feature on its
\* threshold: fistDistance 0.18, avgDist 0.28 (no rule matches)
PosePinchClosed ==
    Landmarks(Wrist, Pt(390, 500), Pt(380, 500), Pt(380, 500), Pt(380, 500),
              Pt(380, 500), Pt(200, 500))

Hands ==
    {PoseFist, PosePinch, PosePinchPeace, PosePeace, PosePeaceOpen,
     PoseFistPeace, PoseOpen, PoseRelaxed, PosePinchClosed}

\* result.landmarks: no hand, or one hand (numHands: 1)
Results == {<<>>} \cup {<<h>> : h \in Hands}

\* the results with a hand that makes the peace sign and matches no other
\* rule, and those with a hand that matches one rule
PeaceResults == {<<>>, <<PosePeace>>, <<PosePeaceOpen>>}

PlainResults ==
    {<<>>, <<PoseFist>>, <<PosePinch>>, <<PoseOpen>>, <<PosePeace>>}

\* the results that lead into FOCUS and that spawn a burst
FocusResults == {<<PosePinch>>, <<PosePeace>>}

\* the results that lead into each of the three modes
MotionResults == {<<PoseFist>>, <<PosePinch>>, <<PoseOpen>>}

(***************************************************************************)
(* The features processGestures derives from the landmarks.  The two means *)
(* are kept as sums of four distances and compared with four times the     *)
(* threshold.                                                              *)
(***************************************************************************)
Dist(a, b) == Hypot(a.x - b.x, a.y - b.y)

PinchDist(lm) == Dist(lm[4], lm[8])

AvgDist4(lm) ==
    Dist(lm[8], lm[0]) + Dist(lm[12], lm[0]) + Dist(lm[16], lm[0])
      + Dist(lm[20], lm[0])

FistDistance4(lm) ==
    Dist(lm[8], lm[9]) + Dist(lm[12], lm[9]) + Dist(lm[16], lm[9])
      + Dist(lm[20], lm[9])

PeaceOf(lm) ==
    LET dIndex == Dist(lm[8], lm[0])
        dMiddle == Dist(lm[12], lm[0])
        dRing == Dist(lm[16], lm[0])
        dPinky == Dist(lm[20], lm[0])
    IN  /\ dIndex > PeaceMinDist /\ dMiddle > PeaceMinDist
        /\ 10 * dRing < 7 * dIndex /\ 10 * dPinky < 7 * dMiddle
        /\ Abs(dIndex - dMiddle) < PeaceGap

\* the features of every hand of the input set, computed once
Features ==
    [lm \in Hands |->
        [pinchDist |-> PinchDist(lm), avgDist4 |-> AvgDist4(lm),
         fistDistance4 |-> FistDistance4(lm), isPeace |-> PeaceOf(lm)]]

IsPeace(lm) == Features[lm].isPeace

\* fistDistance < 0.18
IsFist(lm) == Features[lm].fistDistance4 < 4 * FistThreshold

\* pinchDist < 0.045 && avgDist > 0.28
IsPinch(lm) ==
    /\ Features[lm].pinchDist < PinchThreshold
    /\ Features[lm].avgDist4 > 4 * PinchOpenThreshold

\* avgDist > 0.4
IsOpen(lm) == Features[lm].avgDist4 > 4 * ScatterThreshold

\* s.hand.x = (lm[9].x - 0.5) * 2
HandCoord(c) == (c - 500) * 2

(***************************************************************************)
(* State.                                                                  *)
(***************************************************************************)
VARIABLES
    \* stateRef.current
    mode, focusTarget, hand, rotation, particleSystem, fireworkSystem,
    photoMeshGroup, lastFireworkTime,
    \* App: useState mode / photos
    uiMode, uiPhotos,
    \* texture loads started by loadAndAddPhoto and not yet completed
    loading,
    \* the firework meshes in the THREE scene, and for every firework mesh
    \* whose geometry and material were disposed the number of times
    scene, disposed,
    \* webcamRef.current is attached (React sets it to null at unmount);
    \* the position of initMediaPipe / detectHands: "pending" (awaiting),
    \* "running" (detectHands is scheduled on every frame), "failed" (an
    \* await rejected), "stopped" (detectHands returned without scheduling
    \* itself); the component's cleanup has run
    webcamRef, mediaPipe, unmounted,
    \* the position inside processGestures: Idle outside a cycle, and
    \* between the write of focusTarget (lines 925-941) and the write of
    \* mode (943-946) the newMode the cycle is about to store
    cycle,
    \* App: the effect that loads the persisted photos has got its answer
    restored,
    \* App: the photos of the latest render, which the handlers of the
    \* buttons on screen have closed over (uiPhotos is the state a later
    \* render will show); the ids of the records of the photo store; the
    \* position of handleClearAllPhotos: whether its loop is running, the
    \* photos its closure holds, the number of iterations begun, and as
    \* observation the indices it passed to handleDeletePhoto and whether
    \* no other deletion was issued since it began
    renderedPhotos, db, clearAll,
    \* mesh.position of the mesh of every particle of particleSystem, and
    \* mainGroup.matrixWorld: the rotation composer.render() last saw
    position, matrixWorld,
    \* environment: Date.now() at the latest gesture cycle, number of
    \* addPhoto calls, number of render ticks, next fresh mesh identity
    clock, added, frames, nextMesh,
    \* observation of the latest operation: its name, its inputs and the
    \* mode and focus target it started with; the arguments of the
    \* onModeChange / onPhotosChange calls it made; the number of
    \* spawnFirework calls it made
    last, modeNotes, photoNotes, spawned,
    \* observation of the firework trigger: the times of the latest two
    \* spawnFirework calls
    burstLog

vars ==
    <<mode, focusTarget, hand, rotation, particleSystem, fireworkSystem,
      photoMeshGroup, lastFireworkTime, uiMode, uiPhotos, loading, scene,
      disposed, webcamRef, mediaPipe, unmounted, cycle, restored,
      renderedPhotos, db, clearAll, position,
      matrixWorld, clock, added, frames, nextMesh, last, modeNotes,
      photoNotes, spawned, burstLog>>

\* the variables of the component's life cycle, and those of App's store
lifeVars == <<webcamRef, mediaPipe, unmounted, cycle>>

appVars == <<restored, renderedPhotos, db, clearAll>>

\* handleClearAllPhotos is not running
NoRun ==
    [running |-> FALSE, photos |-> <<>>, k |-> 0, calls |-> <<>>,
     alone |-> TRUE]

\* the transforms the render tick writes
meshVars == <<position, matrixWorld>>

\* the last n entries of s with e appended
Keep(s, e, n) ==
    LET t == Append(s, e)
    IN  IF Len(t) > n THEN SubSeq(t, Len(t) - n + 1, Len(t)) ELSE t

Op(name, result, index, dt) ==
    [op |-> name, result |-> result, index |-> index, dt |-> dt,
     mode |-> mode, focusTarget |-> focusTarget]

(***************************************************************************)
(* Particles.                                                              *)
(***************************************************************************)
\* calculatePositions: three outcomes of its draws for a particle of the
\* tree and three for a dust particle.  posTree = (cos(angle) r, y, sin(angle) r)
\* with y = 24 t - 12 and r = max(8 (1 - t), 0.5) (0.8 + 0.4 u): t = 0.5,
\* u = 0.5, angle = 25 pi give (-4, 0, 0); t = 0.75, u = 0.5, angle = 37.5 pi
\* give (0, 6, -2); t = 0.25, u = 0, angle = 13 pi give (-4.8, -6, 0).
\* posScatter lies on the sphere of radius 8 + 12 u (dust: 20 + 20 u).
TreeSample(k) ==
    IF k % 3 = 0 THEN Vec(-4000, 0, 0)
    ELSE IF k % 3 = 1 THEN Vec(0, 6000, -2000)
    ELSE Vec(-4800, -6000, 0)

ScatterSample(k, isDust) ==
    LET r == IF isDust THEN 20000 ELSE 10000
    IN  IF k % 3 = 0 THEN Vec(r, 0, 0)
        ELSE IF k % 3 = 1 THEN Vec(0, r, 0)
        ELSE Vec(0, 0, 0 - r)

\* new ParticleImpl(mesh, type, isDust); name and src are the mesh's name
\* and the src of the image of its photo texture; the constructor of mesh
\* number n takes the n-th outcome of calculatePositions
Particle(mesh, type, isDust, name, src) ==
    [mesh |-> mesh, type |-> type, isDust |-> isDust, name |-> name,
     src |-> src, posTree |-> TreeSample(mesh),
     posScatter |-> ScatterSample(mesh, isDust)]

\* mesh.position after the constructor: a new mesh is at the origin; a dust
\* mesh is put at ((u1 - 0.5) 40, (u2 - 0.5) 40, (u3 - 0.5) 40), here for
\* u1 = u3 = 0.5 and u2 = 0.0125
StartPosition(isDust) == IF isDust THEN Vec(0, -19500, 0) ELSE Vec(0, 0, 0)

\* sys.filter(p => p.type === 'PHOTO')
IsPhoto(p) == p.type = "PHOTO"

PhotoParticles(sys) == SelectSeq(sys, IsPhoto)

\* faulty variant: the id reported is made from the position in the list
GetPhotoDataListByIndex(sys) ==
    LET photos == PhotoParticles(sys)
    IN  [i \in 1 .. Len(photos) |->
            [id |-> <<"photo", i>>, url |-> photos[i].src]]

\* getPhotoDataList
GetPhotoDataList(sys) ==
    LET photos == PhotoParticles(sys)
    IN  [i \in 1 .. Len(photos) |->
            [id |-> photos[i].name, url |-> photos[i].src]]

\* sys.indexOf(targetP), 1-based; 0 when absent
IndexOf(sys, p) ==
    IF \E i \in 1 .. Len(sys) : sys[i] = p
    THEN CHOOSE i \in 1 .. Len(sys) :
             sys[i] = p /\ \A j \in 1 .. i - 1 : sys[j] # p
    ELSE 0

\* sys.splice(i, 1), 1-based
Splice(sys, i) == SubSeq(sys, 1, i - 1) \o SubSeq(sys, i + 1, Len(sys))

(***************************************************************************)
(* The state after the mount effect: ornaments, dust, the default photo,   *)
(* and the first syncPhotos.                                               *)
(***************************************************************************)
InitialParticles ==
    [i \in 1 .. OrnamentCount |-> Particle(i, "BOX", FALSE, <<"", 0>>, Undefined)]
      \o [i \in 1 .. DustCount |->
            Particle(OrnamentCount + i, "DUST", TRUE, <<"", 0>>, Undefined)]
      \o <<Particle(OrnamentCount + DustCount + 1, "PHOTO", FALSE,
                    DefaultPhotoId, Undefined)>>

Init ==
    /\ mode = "TREE"
    /\ focusTarget = Null
    /\ hand = [detected |-> FALSE, x |-> 0, y |-> 0]
    /\ rotation = [x |-> 0, y |-> 0]
    /\ particleSystem = InitialParticles
    /\ fireworkSystem = <<>>
    /\ photoMeshGroup = {OrnamentCount + DustCount + 1}
    /\ lastFireworkTime = 0
    /\ uiMode = "TREE"
    /\ uiPhotos = GetPhotoDataList(InitialParticles)
    /\ loading = {}
    /\ scene = {}
    /\ disposed = [m \in {} |-> 0]
    /\ webcamRef = TRUE
    /\ mediaPipe = "pending"
    /\ unmounted = FALSE
    /\ cycle = Idle
    /\ restored = FALSE
    /\ renderedPhotos = GetPhotoDataList(InitialParticles)
    /\ db = {}
    /\ clearAll = NoRun
    /\ position =
          [m \in 1 .. OrnamentCount + DustCount + 1 |->
              StartPosition(m > OrnamentCount /\ m <= OrnamentCount + DustCount)]
    /\ matrixWorld = [x |-> 0, y |-> 0]
    /\ clock = StartTime
    /\ added = 0
    /\ frames = 0
    /\ nextMesh = OrnamentCount + DustCount + 2
    /\ last = Op("mount", <<>>, 0, 0)
    /\ modeNotes = <<>>
    /\ photoNotes = <<GetPhotoDataList(InitialParticles)>>
    /\ spawned = 0
    /\ burstLog = <<>>

(***************************************************************************)
(* Firework trigger and spawn.                                             *)
(***************************************************************************)
\* faulty variant: the debounce test is dropped
FireDueNoDebounce(lm, now, lastTime) == IsPeace(lm)

\* if (isPeace && (now - s.lastFireworkTime > 500))
FireDue(lm, now, lastTime) == IsPeace(lm) /\ now - lastTime > DebounceMs

\* faulty variant: count = 30 + random * 21
BurstCountWide(k) == 30 + (21 * k + CountDen - 1) \div CountDen

\* iterations of for (i = 0; i < count; i++) with count = 30 + random * 20,
\* for the draw k / CountDen: the least integer that is not below count
BurstCount(k) == 30 + (20 * k + CountDen - 1) \div CountDen

\* maxLife = 1.0 + Math.random() * 0.5, in milliseconds
MaxLifeOf(k) == 1000 + (500 * k) \div RandDen

\* new FireworkParticle(center, color): a fresh mesh at center, life 0 and
\* a drawn maxLife; center stays the point the mesh was created at
FireworkParticle(mesh, center, k) ==
    [mesh |-> mesh, center |-> center, life |-> 0, maxLife |-> MaxLifeOf(k)]

\* the identities of the firework meshes
FireworkMeshes(sys) == {sys[i].mesh : i \in 1 .. Len(sys)}

\* the number of FireworkParticle objects constructed so far: every one is
\* either active or disposed
FireworksMade(sys, disp) == Cardinality(FireworkMeshes(sys) \cup DOMAIN disp)

\* fx = s.hand.x * -25, fy = s.hand.y * -20 + 10, z = 0
TriggerPoint(h) == [x |-> h.x * (0 - 25), y |-> h.y * (0 - 20) + 10000, z |-> 0]

\* spawnFirework(x, y, z): the particles pushed on fireworkSystem; the i-th
\* constructor call draws (kLife + i - 1) / RandDen for its maxLife
SpawnFirework(sys, made, center, kCount, kLife) ==
    sys \o [i \in 1 .. BurstCount(kCount) |->
              FireworkParticle(made + i, center, (kLife + i - 1) % RandDen)]

(***************************************************************************)
(* The mode rules of processGestures: the new mode and focus target.       *)
(***************************************************************************)
\* faulty variant: the fist rule does not clear the focus target
ClassifyFistKeepsFocus(lm, m, ft, sys, k) ==
    IF IsFist(lm)
    THEN [mode |-> "TREE", focusTarget |-> ft]
    ELSE IF IsPinch(lm)
    THEN IF m # "FOCUS"
         THEN LET photos == PhotoParticles(sys)
              IN  [mode |-> "FOCUS",
                   focusTarget |->
                       IF Len(photos) # 0
                       THEN photos[RandomIndex(k, Len(photos)) + 1].mesh
                       ELSE ft]
         ELSE [mode |-> m, focusTarget |-> ft]
    ELSE IF IsOpen(lm) /\ ~IsPeace(lm)
    THEN [mode |-> "SCATTER", focusTarget |-> Null]
    ELSE [mode |-> m, focusTarget |-> ft]

\* faulty variant: the scatter rule does not clear the focus target
ClassifyScatterKeepsFocus(lm, m, ft, sys, k) ==
    IF IsFist(lm)
    THEN [mode |-> "TREE", focusTarget |-> Null]
    ELSE IF IsPinch(lm)
    THEN IF m # "FOCUS"
         THEN LET photos == PhotoParticles(sys)
              IN  [mode |-> "FOCUS",
                   focusTarget |->
                       IF Len(photos) # 0
                       THEN photos[RandomIndex(k, Len(photos)) + 1].mesh
                       ELSE ft]
         ELSE [mode |-> m, focusTarget |-> ft]
    ELSE IF IsOpen(lm) /\ ~IsPeace(lm)
    THEN [mode |-> "SCATTER", focusTarget |-> ft]
    ELSE [mode |-> m, focusTarget |-> ft]

\* faulty variant: the focus target is drawn from the whole particle
\* collection instead of the PHOTO particles
ClassifyAnyParticle(lm, m, ft, sys, k) ==
    IF IsFist(lm)
    THEN [mode |-> "TREE", focusTarget |-> Null]
    ELSE IF IsPinch(lm)
    THEN IF m # "FOCUS"
         THEN [mode |-> "FOCUS",
               focusTarget |->
                   IF Len(sys) # 0
                   THEN sys[RandomIndex(k, Len(sys)) + 1].mesh
                   ELSE ft]
         ELSE [mode |-> m, focusTarget |-> ft]
    ELSE IF IsOpen(lm) /\ ~IsPeace(lm)
    THEN [mode |-> "SCATTER", focusTarget |-> Null]
    ELSE [mode |-> m, focusTarget |-> ft]

\* faulty variant: a hand that matches no rule resets the mode to TREE
ClassifyHoldResets(lm, m, ft, sys, k) ==
    IF IsFist(lm)
    THEN [mode |-> "TREE", focusTarget |-> Null]
    ELSE IF IsPinch(lm)
    THEN IF m # "FOCUS"
         THEN LET photos == PhotoParticles(sys)
              IN  [mode |-> "FOCUS",
                   focusTarget |->
                       IF Len(photos) # 0
                       THEN photos[RandomIndex(k, Len(photos)) + 1].mesh
                       ELSE ft]
         ELSE [mode |-> m, focusTarget |-> ft]
    ELSE IF IsOpen(lm) /\ ~IsPeace(lm)
    THEN [mode |-> "SCATTER", focusTarget |-> Null]
    ELSE IF IsPeace(lm)
    THEN [mode |-> m, focusTarget |-> ft]
    ELSE [mode |-> "TREE", focusTarget |-> Null]

\* faulty variant: the scatter rule does not test the peace sign
ClassifyOpenIgnoresPeace(lm, m, ft, sys, k) ==
    IF IsFist(lm)
    THEN [mode |-> "TREE", focusTarget |-> Null]
    ELSE IF IsPinch(lm)
    THEN IF m # "FOCUS"
         THEN LET photos == PhotoParticles(sys)
              IN  [mode |-> "FOCUS",
                   focusTarget |->
                       IF Len(photos) # 0
                       THEN photos[RandomIndex(k, Len(photos)) + 1].mesh
                       ELSE ft]
         ELSE [mode |-> m, focusTarget |-> ft]
    ELSE IF IsOpen(lm)
    THEN [mode |-> "SCATTER", focusTarget |-> Null]
    ELSE [mode |-> m, focusTarget |-> ft]

\* faulty variant: a pinch in FOCUS draws a new focus target
ClassifyRepicks(lm, m, ft, sys, k) ==
    IF IsFist(lm)
    THEN [mode |-> "TREE", focusTarget |-> Null]
    ELSE IF IsPinch(lm)
    THEN LET photos == PhotoParticles(sys)
         IN  [mode |-> "FOCUS",
              focusTarget |->
                  IF Len(photos) # 0
                  THEN photos[RandomIndex(k, Len(photos)) + 1].mesh
                  ELSE ft]
    ELSE IF IsOpen(lm) /\ ~IsPeace(lm)
    THEN [mode |-> "SCATTER", focusTarget |-> Null]
    ELSE [mode |-> m, focusTarget |-> ft]

Classify(lm, m, ft, sys, k) ==
    IF IsFist(lm)
    THEN [mode |-> "TREE", focusTarget |-> Null]
    ELSE IF IsPinch(lm)
    THEN IF m # "FOCUS"
         THEN LET photos == PhotoParticles(sys)
              IN  [mode |-> "FOCUS",
                   focusTarget |->
                       IF Len(photos) # 0
                       THEN photos[RandomIndex(k, Len(photos)) + 1].mesh
                       ELSE ft]
         ELSE [mode |-> m, focusTarget |-> ft]
    ELSE IF IsOpen(lm) /\ ~IsPeace(lm)
    THEN [mode |-> "SCATTER", focusTarget |-> Null]
    ELSE [mode |-> m, focusTarget |-> ft]

\* faulty variant: onModeChange is called in every cycle
ModeChangeCallsAlways(newMode, m) == <<newMode>>

\* if (newMode !== s.mode) { s.mode = newMode; onModeChange(newMode); }
ModeChangeCalls(newMode, m) == IF newMode # m THEN <<newMode>> ELSE <<>>

\* App: onModeChange={setMode}
SetMode(m, calls) == IF Len(calls) = 0 THEN m ELSE calls[Len(calls)]

(***************************************************************************)
(* processGestures(result) at Date.now() = now.                            *)
(***************************************************************************)
ProcessGestures(result, now, k, kCount, kLife) ==
    /\ clock' = now
    /\ last' = Op("processGestures", result, 0, 0)
    /\ photoNotes' = <<>>
    /\ IF Len(result) > 0
       THEN LET lm == result[1]
                fire == FireDue(lm, now, lastFireworkTime)
                c == Classify(lm, mode, focusTarget, particleSystem, k)
                calls == ModeChangeCalls(c.mode, mode)
                h == [detected |-> TRUE, x |-> HandCoord(lm[9].x),
                      y |-> HandCoord(lm[9].y)]
                fireworks ==
                    IF fire
                    THEN SpawnFirework(fireworkSystem,
                                       FireworksMade(fireworkSystem, disposed),
                                       TriggerPoint(h), kCount, kLife)
                    ELSE fireworkSystem
            IN  /\ hand' = h
                /\ lastFireworkTime' = IF fire THEN now ELSE lastFireworkTime
                /\ fireworkSystem' = fireworks
                /\ scene' = scene \cup FireworkMeshes(fireworks)
                /\ spawned' = IF fire THEN 1 ELSE 0
                /\ burstLog' =
                       IF fire THEN Keep(burstLog, now, 2)
                       ELSE burstLog
                /\ focusTarget' = c.focusTarget
                /\ mode' = c.mode
                /\ modeNotes' = calls
                /\ uiMode' = SetMode(uiMode, calls)
       ELSE /\ hand' = [hand EXCEPT !.detected = FALSE]
            /\ modeNotes' = <<>>
            /\ spawned' = 0
            /\ UNCHANGED <<mode, focusTarget, lastFireworkTime, fireworkSystem,
                           scene, uiMode, burstLog>>
    /\ UNCHANGED <<rotation, particleSystem, photoMeshGroup, uiPhotos, loading,
                   disposed, added, frames, nextMesh>>
    /\ UNCHANGED lifeVars
    /\ UNCHANGED appVars
    /\ UNCHANGED meshVars

\* the draws of a Math.random() call that is reached (one draw stands for
\* all when the call is not reached)
Draws(reached) == IF reached THEN 0 .. RandDen - 1 ELSE {0}

\* a detection loop that runs whatever became of the video element and of
\* the landmarker
CanDetectAlways(ref, pipe) == TRUE

\* if (!webcamRef.current || !handLandmarker) return;
CanDetect(ref, pipe) == ref /\ pipe = "running"

\* a frame of detectHands with a new video frame: processGestures on one of
\* the results, at one of the times, with one of the burst sizes
DetectHands(results, steps, counts) ==
    \E result \in results, d \in steps :
        /\ CanDetect(webcamRef, mediaPipe)
        /\ clock + d <= MaxTime
        /\ \E k \in Draws(Len(result) > 0 /\ IsPinch(result[1])),
              kCount \in counts, kLife \in BurstDraws :
               ProcessGestures(result, clock + d, k, kCount, kLife)

GestureCycle(steps) == DetectHands(Results, steps, BurstDraws)

\* processGestures up to line 941: the hand, the firework trigger and the
\* focus target are written, newMode is computed and not yet stored
ProcessGesturesBegin(result, now, k, kCount, kLife) ==
    /\ cycle = Idle
    /\ clock' = now
    /\ last' = Op("processGesturesBegin", result, 0, 0)
    /\ photoNotes' = <<>>
    /\ modeNotes' = <<>>
    /\ IF Len(result) > 0
       THEN LET lm == result[1]
                fire == FireDue(lm, now, lastFireworkTime)
                c == Classify(lm, mode, focusTarget, particleSystem, k)
                h == [detected |-> TRUE, x |-> HandCoord(lm[9].x),
                      y |-> HandCoord(lm[9].y)]
                fireworks ==
                    IF fire
                    THEN SpawnFirework(fireworkSystem,
                                       FireworksMade(fireworkSystem, disposed),
                                       TriggerPoint(h), kCount, kLife)
                    ELSE fireworkSystem
            IN  /\ hand' = h
                /\ lastFireworkTime' = IF fire THEN now ELSE lastFireworkTime
                /\ fireworkSystem' = fireworks
                /\ scene' = scene \cup FireworkMeshes(fireworks)
                /\ spawned' = IF fire THEN 1 ELSE 0
                /\ burstLog' =
                       IF fire THEN Keep(burstLog, now, 2)
                       ELSE burstLog
                /\ focusTarget' = c.focusTarget
                /\ cycle' = c.mode
       ELSE /\ hand' = [hand EXCEPT !.detected = FALSE]
            /\ spawned' = 0
            /\ cycle' = mode
            /\ UNCHANGED <<focusTarget, lastFireworkTime, fireworkSystem,
                           scene, burstLog>>
    /\ UNCHANGED <<mode, uiMode, rotation, particleSystem, photoMeshGroup,
                   uiPhotos, loading, disposed, added, frames, nextMesh,
                   webcamRef, mediaPipe, unmounted>>
    /\ UNCHANGED appVars
    /\ UNCHANGED meshVars

\* processGestures from line 943 to its end: newMode is stored and
\* notified when it differs from the mode
ProcessGesturesEnd ==
    /\ cycle # Idle
    /\ cycle' = Idle
    /\ mode' = cycle
    /\ modeNotes' = ModeChangeCalls(cycle, mode)
    /\ uiMode' = SetMode(uiMode, ModeChangeCalls(cycle, mode))
    /\ last' = Op("processGesturesEnd", <<>>, 0, 0)
    /\ photoNotes' = <<>>
    /\ spawned' = 0
    /\ UNCHANGED <<focusTarget, hand, rotation, particleSystem,
                   fireworkSystem, photoMeshGroup, lastFireworkTime, uiPhotos,
                   loading, scene, disposed, clock, added, frames, nextMesh,
                   burstLog, webcamRef, mediaPipe, unmounted>>
    /\ UNCHANGED appVars
    /\ UNCHANGED meshVars

\* a frame of detectHands that has entered processGestures
DetectHandsBegins(results, steps) ==
    \E result \in results, d \in steps :
        /\ CanDetect(webcamRef, mediaPipe)
        /\ clock + d <= MaxTime
        /\ \E k \in Draws(Len(result) > 0 /\ IsPinch(result[1])),
              kCount \in BurstDraws, kLife \in BurstDraws :
               ProcessGesturesBegin(result, clock + d, k, kCount, kLife)

\* faulty variant: a callback starts while another one is running
TaskFreeAlways(c) == TRUE

\* requestAnimationFrame runs a callback when no other code is running
TaskFree(c) == c = Idle

(***************************************************************************)
(* The render tick.                                                        *)
(***************************************************************************)
\* the hand-driven slew of the SCATTER branch
HandRotation(rot, h, dt) ==
    LET targetRotY == (h.x * 3142 * 9) \div 10000
        targetRotX == (h.y * 3142 * 25) \div 100000
    IN  [y |-> rot.y + ((targetRotY - rot.y) * 3 * dt) \div 1000,
         x |-> rot.x + ((targetRotX - rot.x) * 3 * dt) \div 1000]

\* the automatic rotation of the else branch
AutoRotation(rot, m, dt) ==
    IF m = "TREE"
    THEN [y |-> rot.y + (3 * dt) \div 10,
          x |-> rot.x + ((0 - rot.x) * 2 * dt) \div 1000]
    ELSE [y |-> rot.y + dt \div 10, x |-> rot.x]

\* faulty variant: the SCATTER branch does not test hand.detected
NextRotationIgnoresDetected(rot, m, h, dt) ==
    IF m = "SCATTER"
    THEN HandRotation(rot, h, dt)
    ELSE AutoRotation(rot, m, dt)

\* if (s.mode === 'SCATTER' && s.hand.detected) ... else ...
NextRotation(rot, m, h, dt) ==
    IF m = "SCATTER" /\ h.detected
    THEN HandRotation(rot, h, dt)
    ELSE AutoRotation(rot, m, dt)

\* FireworkParticle.update(dt): life += dt; return life < maxLife
FireworkUpdate(p, dt) == [p EXCEPT !.life = p.life + dt]

\* faulty variant: a particle whose life equals maxLife is kept
FireworkAliveInclusive(p) == p.life <= p.maxLife

FireworkAlive(p) == p.life < p.maxLife

\* the firework loop of animate: every particle of the list is stepped
\* once (the loop runs from the last index down, so a splice moves no
\* particle that is still to be visited)
SteppedFireworks(sys, dt) == [i \in 1 .. Len(sys) |-> FireworkUpdate(sys[i], dt)]

\* the particles left after the splices
StepFireworks(sys, dt) == SelectSeq(SteppedFireworks(sys, dt), FireworkAlive)

\* the meshes of the particles whose update returned false
DeadFireworks(sys, dt) ==
    FireworkMeshes(SteppedFireworks(sys, dt))
        \ FireworkMeshes(StepFireworks(sys, dt))

\* p.mesh.geometry.dispose(); p.mesh.material.dispose() for the dead meshes
Dispose(disp, dead) ==
    [m \in DOMAIN disp \cup dead |->
        (IF m \in DOMAIN disp THEN disp[m] ELSE 0)
          + (IF m \in dead THEN 1 ELSE 0)]

\* the draws of a dust particle's constructor: fallSpeed = 1.5 + 2.5 u for
\* u = 0.2, wobbleSpeed = 1 + u for u = 0, wobbleDist = 0.5 + 0.5 u for u = 0,
\* in thousandths
FallSpeed == 2000
WobbleSpeed == 1000
WobbleDist == 500

\* Date.now() as the render ticks read it for the wobble of the snow: the
\* wobble is followed at one instant
SnowTime == StartTime

\* the falling snow of a dust particle in TREE; time is Date.now() in
\* milliseconds; a particle that fell below -20 is put back at y = 20 and
\* x = z = (u - 0.5) 40, here for u = 0.25
Snow(pos, mesh, dt, time) ==
    LET phase == (time * WobbleSpeed) \div 1000 + 1000 * mesh
        fallen ==
            Vec(pos.x + RoundDiv(Sin(phase) * dt * WobbleDist, 1000000),
                pos.y - RoundDiv(FallSpeed * dt, 1000),
                pos.z + RoundDiv(Cos(phase) * dt * WobbleDist, 1000000))
    IN  IF fallen.y < 0 - 20000 THEN Vec(-10000, 20000, -10000) ELSE fallen

\* new Vector3(0, 2, 35).applyMatrix4(mainGroup.matrixWorld inverted):
\* mainGroup is rotated about x, then y, so the inverse turns back about
\* x by -mw.x and then about y by -mw.y
FocusPoint(mw) ==
    LET y1 == RoundDiv(2000 * Cos(mw.x) + 35000 * Sin(mw.x), 1000)
        z1 == RoundDiv(35000 * Cos(mw.x) - 2000 * Sin(mw.x), 1000)
    IN  Vec(RoundDiv((0 - z1) * Sin(mw.y), 1000), y1,
            RoundDiv(z1 * Cos(mw.y), 1000))

\* faulty variant: in FOCUS the particles that are not the focus target
\* stay in the tree
UpdateKeepsTree(p, pos, dt, m, ft, mw, time) ==
    IF p.isDust
    THEN [position |-> IF m = "TREE" THEN Snow(pos, p.mesh, dt, time)
                       ELSE Lerp(pos, p.posScatter, dt, 2000),
          posTree |-> p.posTree, posScatter |-> p.posScatter]
    ELSE LET target ==
                 IF m = "FOCUS" /\ p.mesh = ft THEN FocusPoint(mw)
                 ELSE IF m = "SCATTER" THEN p.posScatter
                 ELSE p.posTree
             lerpSpeed == IF m = "FOCUS" /\ p.mesh = ft THEN 5 ELSE 2
         IN  [position |-> Lerp(pos, target, lerpSpeed * dt, 1000),
              posTree |-> p.posTree, posScatter |-> p.posScatter]

\* faulty variant: the focus branch transforms posScatter in place
UpdateRehomes(p, pos, dt, m, ft, mw, time) ==
    IF p.isDust
    THEN [position |-> IF m = "TREE" THEN Snow(pos, p.mesh, dt, time)
                       ELSE Lerp(pos, p.posScatter, dt, 2000),
          posTree |-> p.posTree, posScatter |-> p.posScatter]
    ELSE LET target ==
                 IF m = "SCATTER" THEN p.posScatter
                 ELSE IF m = "FOCUS"
                 THEN (IF p.mesh = ft THEN FocusPoint(mw) ELSE p.posScatter)
                 ELSE p.posTree
             lerpSpeed == IF m = "FOCUS" /\ p.mesh = ft THEN 5 ELSE 2
         IN  [position |-> Lerp(pos, target, lerpSpeed * dt, 1000),
              posTree |-> p.posTree,
              posScatter |-> IF m = "FOCUS" /\ p.mesh = ft THEN FocusPoint(mw)
                             ELSE p.posScatter]

\* ParticleImpl.update(dt, mode, focusTarget, cameraPos): the position of
\* the mesh and the two homes of the particle after the call (rotation and
\* scale of the mesh are not part of this state)
Update(p, pos, dt, m, ft, mw, time) ==
    IF p.isDust
    THEN [position |-> IF m = "TREE" THEN Snow(pos, p.mesh, dt, time)
                       ELSE Lerp(pos, p.posScatter, dt, 2000),
          posTree |-> p.posTree, posScatter |-> p.posScatter]
    ELSE LET target ==
                 IF m = "SCATTER" THEN p.posScatter
                 ELSE IF m = "FOCUS"
                 THEN (IF p.mesh = ft THEN FocusPoint(mw) ELSE p.posScatter)
                 ELSE p.posTree
             lerpSpeed == IF m = "FOCUS" /\ p.mesh = ft THEN 5 ELSE 2
         IN  [position |-> Lerp(pos, target, lerpSpeed * dt, 1000),
              posTree |-> p.posTree, posScatter |-> p.posScatter]

\* s.particleSystem.forEach(p => p.update(dt, s.mode, s.focusTarget, ...)):
\* the particles, and the positions of their meshes, after the loop
UpdatedParticles(sys, posn, dt, m, ft, mw, time) ==
    [i \in 1 .. Len(sys) |->
        LET u == Update(sys[i], posn[sys[i].mesh], dt, m, ft, mw, time)
        IN  [sys[i] EXCEPT !.posTree = u.posTree, !.posScatter = u.posScatter]]

UpdatedPositions(sys, posn, dt, m, ft, mw, time) ==
    [msh \in DOMAIN posn |->
        IF \E i \in 1 .. Len(sys) : sys[i].mesh = msh
        THEN LET i == CHOOSE j \in 1 .. Len(sys) : sys[j].mesh = msh
             IN  Update(sys[i], posn[msh], dt, m, ft, mw, time).position
        ELSE posn[msh]]

\* faulty variant: the render tick puts the mode back to TREE
AnimateResetsMode(dt) ==
    /\ frames' = IF frames < MaxFrames THEN frames + 1 ELSE frames
    /\ rotation' = NextRotation(rotation, mode, hand, dt)
    /\ particleSystem' =
          UpdatedParticles(particleSystem, position, dt, mode, focusTarget,
                           matrixWorld, SnowTime)
    /\ position' =
          UpdatedPositions(particleSystem, position, dt, mode, focusTarget,
                           matrixWorld, SnowTime)
    /\ matrixWorld' = NextRotation(rotation, mode, hand, dt)
    /\ fireworkSystem' = StepFireworks(fireworkSystem, dt)
    /\ scene' = scene \ DeadFireworks(fireworkSystem, dt)
    /\ disposed' = Dispose(disposed, DeadFireworks(fireworkSystem, dt))
    /\ last' = Op("animate", <<>>, 0, dt)
    /\ mode' = "TREE"
    /\ modeNotes' = <<>>
    /\ photoNotes' = <<>>
    /\ spawned' = 0
    /\ UNCHANGED <<focusTarget, hand, photoMeshGroup, lastFireworkTime,
                   uiMode, uiPhotos, loading, clock, added, nextMesh, burstLog>>
    /\ UNCHANGED lifeVars
    /\ UNCHANGED appVars

\* animate: the rotation, the particle updates, the fireworks, and the
\* render, which brings mainGroup.matrixWorld up to the new rotation
Animate(dt) ==
    /\ frames' = IF frames < MaxFrames THEN frames + 1 ELSE frames
    /\ rotation' = NextRotation(rotation, mode, hand, dt)
    /\ particleSystem' =
          UpdatedParticles(particleSystem, position, dt, mode, focusTarget,
                           matrixWorld, SnowTime)
    /\ position' =
          UpdatedPositions(particleSystem, position, dt, mode, focusTarget,
                           matrixWorld, SnowTime)
    /\ matrixWorld' = NextRotation(rotation, mode, hand, dt)
    /\ fireworkSystem' = StepFireworks(fireworkSystem, dt)
    /\ scene' = scene \ DeadFireworks(fireworkSystem, dt)
    /\ disposed' = Dispose(disposed, DeadFireworks(fireworkSystem, dt))
    /\ last' = Op("animate", <<>>, 0, dt)
    /\ modeNotes' = <<>>
    /\ photoNotes' = <<>>
    /\ spawned' = 0
    /\ UNCHANGED <<mode, focusTarget, hand, photoMeshGroup, lastFireworkTime,
                   uiMode, uiPhotos, loading, clock, added, nextMesh, burstLog>>
    /\ UNCHANGED lifeVars
    /\ UNCHANGED appVars

\* the render ticks explored: the first MaxFrames
RenderTick(dt) == frames < MaxFrames /\ Animate(dt)

\* the render ticks explored: the first MaxFrames, and every tick that
\* starts with a live firework
FadeTick(dt) == (frames < MaxFrames \/ fireworkSystem # <<>>) /\ Animate(dt)

(***************************************************************************)
(* The life cycle: initMediaPipe, the end of detectHands, the cleanup of   *)
(* the mount effect.                                                       *)
(***************************************************************************)
\* initMediaPipe runs to its end: detectHands() is called when the video
\* element is still attached (line 850)
InitMediaPipe ==
    /\ mediaPipe = "pending"
    /\ mediaPipe' = IF webcamRef THEN "running" ELSE "stopped"
    /\ last' = Op("initMediaPipe", <<>>, 0, 0)
    /\ modeNotes' = <<>>
    /\ photoNotes' = <<>>
    /\ spawned' = 0
    /\ UNCHANGED <<mode, focusTarget, hand, rotation, particleSystem,
                   fireworkSystem, photoMeshGroup, lastFireworkTime, uiMode,
                   uiPhotos, loading, scene, disposed, webcamRef, unmounted,
                   clock, added, frames, nextMesh, burstLog>>
    /\ UNCHANGED cycle
    /\ UNCHANGED appVars
    /\ UNCHANGED meshVars

\* an await of initMediaPipe rejects (the model cannot be fetched, the
\* camera is denied): detectHands is never called
InitMediaPipeFails ==
    /\ mediaPipe = "pending"
    /\ mediaPipe' = "failed"
    /\ last' = Op("initMediaPipeFails", <<>>, 0, 0)
    /\ modeNotes' = <<>>
    /\ photoNotes' = <<>>
    /\ spawned' = 0
    /\ UNCHANGED <<mode, focusTarget, hand, rotation, particleSystem,
                   fireworkSystem, photoMeshGroup, lastFireworkTime, uiMode,
                   uiPhotos, loading, scene, disposed, webcamRef, unmounted,
                   clock, added, frames, nextMesh, burstLog>>
    /\ UNCHANGED cycle
    /\ UNCHANGED appVars
    /\ UNCHANGED meshVars

\* a frame of detectHands that finds webcamRef.current null: it returns
\* before requestAnimationFrame(detectHands)
DetectHandsStops ==
    /\ mediaPipe = "running"
    /\ ~CanDetect(webcamRef, mediaPipe)
    /\ mediaPipe' = "stopped"
    /\ last' = Op("detectHandsStops", <<>>, 0, 0)
    /\ modeNotes' = <<>>
    /\ photoNotes' = <<>>
    /\ spawned' = 0
    /\ UNCHANGED <<mode, focusTarget, hand, rotation, particleSystem,
                   fireworkSystem, photoMeshGroup, lastFireworkTime, uiMode,
                   uiPhotos, loading, scene, disposed, webcamRef, unmounted,
                   clock, added, frames, nextMesh, burstLog>>
    /\ UNCHANGED cycle
    /\ UNCHANGED appVars
    /\ UNCHANGED meshVars

\* unmount: React detaches the video element from webcamRef, then the
\* cleanup removes the resize listener and calls renderer.dispose()
Teardown ==
    /\ ~unmounted
    /\ unmounted' = TRUE
    /\ webcamRef' = FALSE
    /\ last' = Op("teardown", <<>>, 0, 0)
    /\ modeNotes' = <<>>
    /\ photoNotes' = <<>>
    /\ spawned' = 0
    /\ UNCHANGED <<mode, focusTarget, hand, rotation, particleSystem,
                   fireworkSystem, photoMeshGroup, lastFireworkTime, uiMode,
                   uiPhotos, loading, scene, disposed, mediaPipe, clock, added,
                   frames, nextMesh, burstLog>>
    /\ UNCHANGED cycle
    /\ UNCHANGED appVars
    /\ UNCHANGED meshVars

(***************************************************************************)
(* The photo manager (useImperativeHandle) and App's handlePhotosChange.   *)
(***************************************************************************)
\* syncPhotos: the onPhotosChange calls of an operation
SyncPhotos(sys) == <<GetPhotoDataList(sys)>>

\* App.handlePhotosChange: setPhotos([...newPhotos])
SetPhotos(photos, calls) ==
    IF Len(calls) = 0 THEN photos ELSE calls[Len(calls)]

\* loadAndAddPhoto(url, id): the load is started; its callback is
\* LoadComplete
LoadAndAddPhoto(url, id) ==
    /\ added < MaxAdds
    /\ added' = added + 1
    /\ loading' = loading \cup {[url |-> url, id |-> id, n |-> added + 1]}
    /\ last' = Op("addPhoto", <<[url |-> url, id |-> id]>>, 0, 0)
    /\ modeNotes' = <<>>
    /\ photoNotes' = <<>>
    /\ spawned' = 0
    /\ UNCHANGED <<mode, focusTarget, hand, rotation, particleSystem,
                   fireworkSystem, photoMeshGroup, lastFireworkTime, uiMode,
                   uiPhotos, scene, disposed, clock, frames, nextMesh, burstLog>>
    /\ UNCHANGED lifeVars
    /\ UNCHANGED meshVars

\* addPhoto(url, existingId)
AddPhoto(url, id) == LoadAndAddPhoto(url, id) /\ UNCHANGED appVars

\* App.handleFileUpload, the onload of a file's reader: addPhoto with a
\* fresh id (photo-<time>-<random>), which is then saved under that id
HandleFileUpload(url) ==
    /\ ~unmounted
    /\ LoadAndAddPhoto(url, <<"photo", added + 1>>)
    /\ db' = db \cup {<<"photo", added + 1>>}
    /\ UNCHANGED <<restored, renderedPhotos, clearAll>>

\* restorePhotos(photos): a load is started for every entry, in order
RestorePhotos(photos) ==
    /\ added + Len(photos) <= MaxAdds
    /\ added' = added + Len(photos)
    /\ loading' =
          loading \cup {[url |-> photos[i].url, id |-> photos[i].id,
                         n |-> added + i] : i \in 1 .. Len(photos)}
    /\ last' = Op("restorePhotos", photos, 0, 0)
    /\ modeNotes' = <<>>
    /\ photoNotes' = <<>>
    /\ spawned' = 0
    /\ UNCHANGED <<mode, focusTarget, hand, rotation, particleSystem,
                   fireworkSystem, photoMeshGroup, lastFireworkTime, uiMode,
                   uiPhotos, scene, disposed, clock, frames, nextMesh, burstLog>>
    /\ UNCHANGED lifeVars
    /\ UNCHANGED meshVars

\* App's mount effect, the answer of getAllPhotosFromDB: the photos the
\* store held at mount (the read is queued ahead of every later save),
\* handed to restorePhotos when there are any; db counts their records
\* from here on, no deletion can name them earlier
LoadPersisted(prior) ==
    /\ ~restored
    /\ restored' = TRUE
    /\ db' = db \cup {prior[i].id : i \in 1 .. Len(prior)}
    /\ UNCHANGED <<renderedPhotos, clearAll>>
    /\ IF Len(prior) > 0 /\ ~unmounted
       THEN RestorePhotos(prior)
       ELSE /\ last' = Op("loadPersisted", <<>>, 0, 0)
            /\ modeNotes' = <<>>
            /\ photoNotes' = <<>>
            /\ spawned' = 0
            /\ UNCHANGED <<mode, focusTarget, hand, rotation, particleSystem,
                           fireworkSystem, photoMeshGroup, lastFireworkTime,
                           uiMode, uiPhotos, loading, scene, disposed, clock,
                           added, frames, nextMesh, burstLog>>
            /\ UNCHANGED lifeVars
            /\ UNCHANGED meshVars

\* getPhotos(): returns getPhotoDataList(); the list is kept in last.result
GetPhotos ==
    /\ last' = Op("getPhotos", GetPhotoDataList(particleSystem), 0, 0)
    /\ modeNotes' = <<>>
    /\ photoNotes' = <<>>
    /\ spawned' = 0
    /\ UNCHANGED <<mode, focusTarget, hand, rotation, particleSystem,
                   fireworkSystem, photoMeshGroup, lastFireworkTime, uiMode,
                   uiPhotos, loading, scene, disposed, clock, added, frames,
                   nextMesh, burstLog>>
    /\ UNCHANGED lifeVars
    /\ UNCHANGED appVars
    /\ UNCHANGED meshVars

\* group.name = id || `photo-${Date.now()}-${Math.random()}`
PhotoName(id, mesh) == IF id = NoId THEN <<"generated", mesh>> ELSE id

\* faulty variant: the particle is put in front of the collection
AddPhotoToSceneFront(sys, mesh, req) ==
    <<Particle(mesh, "PHOTO", FALSE, PhotoName(req.id, mesh), req.url)>> \o sys

\* addPhotoToScene(texture, id): the particle pushed on particleSystem
AddPhotoToScene(sys, mesh, req) ==
    Append(sys, Particle(mesh, "PHOTO", FALSE, PhotoName(req.id, mesh), req.url))

\* the onLoad callback of loadAndAddPhoto: addPhotoToScene, syncPhotos
LoadComplete(req) ==
    LET sys == AddPhotoToScene(particleSystem, nextMesh, req)
    IN  /\ req \in loading
        /\ loading' = loading \ {req}
        /\ particleSystem' = sys
        /\ photoMeshGroup' = photoMeshGroup \cup {nextMesh}
        /\ position' =
              [m \in DOMAIN position \cup {nextMesh} |->
                  IF m = nextMesh THEN StartPosition(FALSE) ELSE position[m]]
        /\ UNCHANGED matrixWorld
        /\ nextMesh' = nextMesh + 1
        /\ photoNotes' = SyncPhotos(sys)
        /\ uiPhotos' = SetPhotos(uiPhotos, SyncPhotos(sys))
        /\ last' = Op("loadComplete", <<req>>, 0, 0)
        /\ modeNotes' = <<>>
        /\ spawned' = 0
        /\ UNCHANGED <<mode, focusTarget, hand, rotation, fireworkSystem,
                       lastFireworkTime, uiMode, scene, disposed, clock, added,
                       frames, burstLog>>
        /\ UNCHANGED lifeVars
        /\ UNCHANGED appVars

\* index >= 0 && index < photoParticles.length
InRange(index, sys) == index >= 0 /\ index < Len(PhotoParticles(sys))

\* faulty variant: index is resolved against the whole collection
RemoveFromSystemByMainIndex(sys, index) ==
    IF InRange(index, sys) THEN Splice(sys, index + 1) ELSE sys

\* the particle collection after removePhoto(index)
RemoveFromSystem(sys, index) ==
    IF InRange(index, sys)
    THEN LET targetP == PhotoParticles(sys)[index + 1]
             mainIndex == IndexOf(sys, targetP)
         IN  IF mainIndex > 0 THEN Splice(sys, mainIndex) ELSE sys
    ELSE sys

\* photoMeshGroup after removePhoto(index)
RemoveFromGroup(group, sys, index) ==
    IF InRange(index, sys)
    THEN group \ {PhotoParticles(sys)[index + 1].mesh}
    ELSE group

\* faulty variant: syncPhotos is called outside the range test
RemoveCallsAlways(sys, index) == SyncPhotos(RemoveFromSystem(sys, index))

\* faulty variant: removePhoto does not call syncPhotos
RemoveCallsNever(sys, index) == <<>>

\* the onPhotosChange calls of removePhoto(index)
RemoveCalls(sys, index) ==
    IF InRange(index, sys) THEN SyncPhotos(RemoveFromSystem(sys, index))
    ELSE <<>>

\* the body of removePhoto(index)
RemoveFromScene(index) ==
    /\ particleSystem' = RemoveFromSystem(particleSystem, index)
    /\ photoMeshGroup' = RemoveFromGroup(photoMeshGroup, particleSystem, index)
    /\ position' =
          [m \in {RemoveFromSystem(particleSystem, index)[i].mesh :
                     i \in 1 .. Len(RemoveFromSystem(particleSystem, index))}
              |-> position[m]]
    /\ UNCHANGED matrixWorld
    /\ photoNotes' = RemoveCalls(particleSystem, index)
    /\ uiPhotos' = SetPhotos(uiPhotos, RemoveCalls(particleSystem, index))
    /\ modeNotes' = <<>>
    /\ spawned' = 0
    /\ UNCHANGED <<mode, focusTarget, hand, rotation, fireworkSystem,
                   lastFireworkTime, uiMode, loading, scene, disposed, clock,
                   added, frames, nextMesh, burstLog>>
    /\ UNCHANGED lifeVars

\* removePhoto(index), called on the handle
RemovePhoto(index) ==
    /\ RemoveFromScene(index)
    /\ last' = Op("removePhoto", <<>>, index, 0)
    /\ UNCHANGED appVars

(***************************************************************************)
(* App: the delete button of a photo and the clear-all button.             *)
(***************************************************************************)
\* photos[index] of a closure, <<>> when it is undefined
PhotoAt(photos, index) ==
    IF index >= 0 /\ index < Len(photos) THEN <<photos[index + 1]>> ELSE <<>>

\* the records left by deletePhotoFromDB(photoToDelete.id), which is called
\* when photoToDelete has an id
DeleteFromDB(store, photoToDelete) ==
    IF Len(photoToDelete) > 0 THEN store \ {photoToDelete[1].id} ELSE store

\* handleDeletePhoto(index) of the render whose photos are given:
\* photoToDelete is read from the closure, removePhoto(index) acts on the
\* scene, the record of photoToDelete is deleted; caller is the handler of
\* the button that was clicked
DeletePhoto(photos, index, caller) ==
    /\ ~unmounted
    /\ RemoveFromScene(index)
    /\ db' = DeleteFromDB(db, PhotoAt(photos, index))
    /\ last' = Op(caller, PhotoAt(photos, index), index, 0)

\* the photos on screen after an event handler: React renders before the
\* handler's event ends when the handler has set the state
RenderedAfter(photos, calls, state) ==
    IF Len(calls) > 0 THEN state ELSE photos

\* a click on the delete button of photo number index of the latest render
HandleDeletePhoto(index) ==
    /\ index >= 0
    /\ index < Len(renderedPhotos)
    /\ DeletePhoto(renderedPhotos, index, "handleDeletePhoto")
    /\ renderedPhotos' = RenderedAfter(renderedPhotos, photoNotes', uiPhotos')
    /\ clearAll' = [clearAll EXCEPT !.alone = @ /\ ~clearAll.running]
    /\ UNCHANGED restored

\* the index of iteration number k (from 0) of the loop of
\* handleClearAllPhotos over n photos: i = n - 1, then i--
ClearIndex(n, k) == n - 1 - k

\* a confirmed click on the clear-all button, which is on screen when the
\* latest render has photos: the first iteration runs up to its await
\* inside the click
HandleClearAllPhotos ==
    /\ ~clearAll.running
    /\ Len(renderedPhotos) > 0
    /\ DeletePhoto(renderedPhotos, ClearIndex(Len(renderedPhotos), 0),
                   "handleClearAllPhotos")
    /\ renderedPhotos' = RenderedAfter(renderedPhotos, photoNotes', uiPhotos')
    /\ clearAll' =
          [running |-> Len(renderedPhotos) > 1, photos |-> renderedPhotos,
           k |-> 1, calls |-> <<ClearIndex(Len(renderedPhotos), 0)>>,
           alone |-> TRUE]
    /\ UNCHANGED restored

\* the loop of handleClearAllPhotos goes on after an await: the next
\* iteration, with the handleDeletePhoto and the photos of its own render
ClearAllStep ==
    /\ clearAll.running
    /\ DeletePhoto(clearAll.photos,
                   ClearIndex(Len(clearAll.photos), clearAll.k),
                   "handleClearAllPhotos")
    /\ clearAll' =
          [clearAll EXCEPT
              !.running = clearAll.k + 1 < Len(clearAll.photos),
              !.k = @ + 1,
              !.calls = Append(@, ClearIndex(Len(clearAll.photos), clearAll.k))]
    /\ UNCHANGED <<restored, renderedPhotos>>

\* React renders App with the photos set outside an event handler
Rerender ==
    /\ renderedPhotos # uiPhotos
    /\ renderedPhotos' = uiPhotos
    /\ last' = Op("render", uiPhotos, 0, 0)
    /\ modeNotes' = <<>>
    /\ photoNotes' = <<>>
    /\ spawned' = 0
    /\ UNCHANGED <<mode, focusTarget, hand, rotation, particleSystem,
                   fireworkSystem, photoMeshGroup, lastFireworkTime, uiMode,
                   uiPhotos, loading, scene, disposed, clock, added, frames,
                   nextMesh, burstLog>>
    /\ UNCHANGED lifeVars
    /\ UNCHANGED meshVars
    /\ UNCHANGED <<restored, db, clearAll>>

(***************************************************************************)
(* Specifications.                                                         *)
(***************************************************************************)
\* the controller and the photo manager
Next ==
    \/ InitMediaPipe
    \/ GestureCycle(SameInstant)
    \/ \E url \in Urls : AddPhoto(url, <<"photo", added + 1>>)
    \/ \E req \in loading : LoadComplete(req)
    \/ \E index \in -1 .. MaxAdds + 1 : RemovePhoto(index)

Spec == Init /\ [][Next]_vars

\* the controller and the render tick
NextRender ==
    \/ InitMediaPipe
    \/ GestureCycle(CoarseSteps)
    \/ \E dt \in Dts : RenderTick(dt)

SpecRender == Init /\ [][NextRender]_vars

\* bursts and the render ticks that fade them; requestAnimationFrame runs
\* animate again after every tick
NextFade ==
    \/ InitMediaPipe
    \/ DetectHands(PeaceResults, CoarseSteps, BurstDraws)
    \/ \E dt \in FadeDts : FadeTick(dt)

SpecFade ==
    Init /\ [][NextFade]_vars /\ WF_vars(\E dt \in FadeDts : FadeTick(dt))

\* the photo manager alone, with and without supplied ids
NextPhotos ==
    \/ \E url \in Urls : HandleFileUpload(url)
    \/ \E url \in Urls : AddPhoto(url, NoId)
    \/ \E prior \in PriorLists : LoadPersisted(prior)
    \/ \E req \in loading : LoadComplete(req)
    \/ \E index \in -1 .. MaxAdds + 1 : RemovePhoto(index)
    \/ GetPhotos

SpecPhotos == Init /\ [][NextPhotos]_vars

\* App's photo buttons, the loads and the renders between them; an await
\* of the clear-all loop is always answered
NextApp ==
    \/ \E url \in Urls : HandleFileUpload(url)
    \/ \E prior \in PriorLists : LoadPersisted(prior)
    \/ \E req \in loading : LoadComplete(req)
    \/ Rerender
    \/ \E index \in 0 .. MaxAdds : HandleDeletePhoto(index)
    \/ HandleClearAllPhotos
    \/ ClearAllStep

SpecApp == Init /\ [][NextApp]_vars /\ WF_vars(ClearAllStep)

\* every operation of the controller, under bounds of its own
NextModes ==
    \/ InitMediaPipe
    \/ DetectHands(FocusResults, SameInstant, BurstDraws)
    \/ \E dt \in Dts : frames < ModeFrames /\ Animate(dt)
    \/ \E url \in Urls :
           added < ModeAdds /\ AddPhoto(url, <<"photo", added + 1>>)
    \/ \E prior \in PriorLists :
           added + Len(prior) <= ModeAdds /\ LoadPersisted(prior)
    \/ \E req \in loading : LoadComplete(req)
    \/ \E index \in -1 .. ModeAdds + 1 : RemovePhoto(index)
    \/ GetPhotos

SpecModes == Init /\ [][NextModes]_vars

\* the gesture cycles with every size of burst
NextSpawn ==
    \/ InitMediaPipe
    \/ DetectHands(Results, SameInstant, CountDraws)

SpecSpawn == Init /\ [][NextSpawn]_vars

\* the life cycle of the component around the controller
NextLife ==
    \/ InitMediaPipe
    \/ InitMediaPipeFails
    \/ DetectHands(PlainResults, SameInstant, BurstDraws)
    \/ \E dt \in Dts : RenderTick(dt)
    \/ Teardown
    \/ DetectHandsStops

SpecLife == Init /\ [][NextLife]_vars

\* the gesture cycle in its two parts and the render tick, which the
\* browser starts between callbacks
NextTorn ==
    \/ InitMediaPipe
    \/ DetectHandsBegins(PlainResults, SameInstant)
    \/ ProcessGesturesEnd
    \/ \E dt \in Dts : TaskFree(cycle) /\ RenderTick(dt)

SpecTorn == Init /\ [][NextTorn]_vars

\* update(dt, mode, focusTarget) applied to the particle p of the system
MovedBy(p, dt) ==
    Update(p, position[p.mesh], dt, mode, focusTarget, matrixWorld, SnowTime)
        .position

\* a render tick with delta dt moves a particle that is not dust
Moving(dt) ==
    \E i \in 1 .. Len(particleSystem) :
        /\ ~particleSystem[i].isDust
        /\ MovedBy(particleSystem[i], dt) # position[particleSystem[i].mesh]

\* the render ticks in every mode, around gestures and photo operations
NextMotion ==
    \/ InitMediaPipe
    \/ DetectHands(MotionResults, SameInstant, BurstDraws)
    \/ \E dt \in MotionDts : RenderTick(dt)
    \/ \E url \in Urls : added < ModeAdds /\ HandleFileUpload(url)
    \/ \E req \in loading : LoadComplete(req)
    \/ RemovePhoto(0)

SpecMotion == Init /\ [][NextMotion]_vars

\* the render ticks with the mode held at TREE, as long as one of them
\* moves a particle, with and without the default photo
NextTree ==
    \/ \E dt \in MotionDts : Moving(dt) /\ Animate(dt)
    \/ RemovePhoto(0)

SpecTree == Init /\ [][NextTree]_vars

\* the firework trigger under fine time steps
NextFire ==
    \/ InitMediaPipe
    \/ GestureCycle(TimeSteps)

SpecFire == Init /\ [][NextFire]_vars

(***************************************************************************)
(* Properties.                                                             *)
(***************************************************************************)
\* the latest operation was a gesture cycle with a hand in the result
GestureWithHand == last.op = "processGestures" /\ Len(last.result) > 0

LastHand == last.result[1]

\* the meshes of the PHOTO particles of a particle collection
PhotoMeshes(sys) ==
    {PhotoParticles(sys)[i].mesh : i \in 1 .. Len(PhotoParticles(sys))}

\* the particles of a collection that are not PHOTO particles, in order
IsNotPhoto(p) == p.type # "PHOTO"

NonPhotoParticles(sys) == SelectSeq(sys, IsNotPhoto)

\* a sequence without its i-th element (1-based)
RemoveAt(seq, i) ==
    [j \in 1 .. Len(seq) - 1 |-> IF j < i THEN seq[j] ELSE seq[j + 1]]

\* C1: a gesture cycle whose landmarks satisfy the fist condition ends with
\* mode = TREE and focusTarget = null, whatever the mode and the focus
\* target were before.
C1_FistYieldsTree ==
    (GestureWithHand /\ IsFist(LastHand))
        => (mode = "TREE" /\ focusTarget = Null)

\* a fist cycle that started in FOCUS with a focus target has just ended
C1_Witness ==
    /\ GestureWithHand /\ IsFist(LastHand)
    /\ last.mode = "FOCUS" /\ last.focusTarget # Null
    /\ mode = "TREE" /\ focusTarget = Null

\* C2: a focus-pinch cycle (not fist) in mode TREE or SCATTER with no PHOTO
\* particle leaves mode unchanged, sends no mode-change notification and
\* does not produce mode = FOCUS with focusTarget = null.
C2_EmptyFocusIgnored ==
    (/\ GestureWithHand /\ ~IsFist(LastHand) /\ IsPinch(LastHand)
     /\ last.mode \in {"TREE", "SCATTER"}
     /\ Len(PhotoParticles(particleSystem)) = 0)
        => (/\ mode = last.mode
            /\ modeNotes = <<>>
            /\ ~(mode = "FOCUS" /\ focusTarget = Null))

\* C3: a focus-pinch cycle (not fist) in mode TREE or SCATTER with at least
\* one PHOTO particle ends with mode = FOCUS, focusTarget one of the PHOTO
\* particles of the collection, and exactly one notification, FOCUS.
C3_PinchFocusesPhoto ==
    (/\ GestureWithHand /\ ~IsFist(LastHand) /\ IsPinch(LastHand)
     /\ last.mode \in {"TREE", "SCATTER"}
     /\ Len(PhotoParticles(particleSystem)) > 0)
        => (/\ mode = "FOCUS"
            /\ focusTarget \in PhotoMeshes(particleSystem)
            /\ modeNotes = <<"FOCUS">>)

\* a pinch cycle that started in TREE has just focused the third of three
\* photos
C3_Witness ==
    /\ GestureWithHand /\ IsPinch(LastHand) /\ ~IsFist(LastHand)
    /\ last.mode = "TREE"
    /\ modeNotes = <<"FOCUS">>
    /\ Len(PhotoParticles(particleSystem)) = 3
    /\ focusTarget = PhotoParticles(particleSystem)[3].mesh

\* C4: every operation has called onModeChange once, with the new mode,
\* when it changed the value of mode, and not at all when mode kept its
\* value; the mode mirrored in App equals the controller's mode.
C4_NotifiedOncePerChange ==
    /\ modeNotes = IF mode # last.mode THEN <<mode>> ELSE <<>>
    /\ uiMode = mode

\* a fist cycle that started in SCATTER has just notified App of TREE
C4_Witness ==
    /\ GestureWithHand /\ IsFist(LastHand)
    /\ last.mode = "SCATTER"
    /\ modeNotes = <<"TREE">>
    /\ uiMode = "TREE"

\* the time of the latest burst spawned before the latest operation
\* (-1 when there is none)
BurstBefore ==
    IF spawned > 0
    THEN IF Len(burstLog) = 2 THEN burstLog[1] ELSE -1
    ELSE IF Len(burstLog) > 0 THEN burstLog[Len(burstLog)] ELSE -1

\* C5: two bursts are never spawned less than 500 ms apart; a burst is
\* spawned only by a cycle whose hand makes the peace sign, at that cycle's
\* time; a peace cycle less than 500 ms after the latest burst spawns
\* nothing, and one 600 ms after it spawns a burst (so peace cycles at t,
\* t+300 and t+600 spawn bursts at t and t+600 only).
C5_Debounce ==
    /\ Len(burstLog) = 2 => burstLog[2] - burstLog[1] >= DebounceMs
    /\ spawned > 0 =>
          /\ GestureWithHand /\ IsPeace(LastHand)
          /\ spawned = 1
          /\ burstLog[Len(burstLog)] = clock
          /\ lastFireworkTime = clock
    /\ (GestureWithHand /\ IsPeace(LastHand) /\ BurstBefore >= 0) =>
          /\ clock - BurstBefore < DebounceMs =>
                (spawned = 0 /\ lastFireworkTime = BurstBefore)
          /\ clock - BurstBefore = 600 => spawned = 1

\* a peace cycle 300 ms after a burst has just been suppressed
C5_Witness ==
    /\ GestureWithHand /\ IsPeace(LastHand)
    /\ spawned = 0
    /\ Len(burstLog) > 0
    /\ clock - burstLog[Len(burstLog)] = 300

\* C6: removePhoto(i) with 0 <= i < N removes the i-th PHOTO particle from
\* the visual group and from the particle collection, keeps the other
\* photos in order and the other particles untouched, and notifies the
\* observer once with the list of length N-1.
C6_RemoveInRange ==
    [][(last'.op = "removePhoto" /\ InRange(last'.index, particleSystem))
       => LET photos == PhotoParticles(particleSystem)
              i == last'.index + 1
          IN  /\ PhotoParticles(particleSystem') = RemoveAt(photos, i)
              /\ NonPhotoParticles(particleSystem')
                    = NonPhotoParticles(particleSystem)
              /\ Len(particleSystem') = Len(particleSystem) - 1
              /\ photoMeshGroup' = photoMeshGroup \ {photos[i].mesh}
              /\ photos[i].mesh \in photoMeshGroup
              /\ photoNotes' = <<GetPhotoDataList(particleSystem')>>
              /\ Len(photoNotes'[1]) = Len(photos) - 1]_vars

\* removePhoto(0) has just removed the first of three photos
C6_Witness ==
    /\ last.op = "removePhoto" /\ last.index = 0
    /\ Len(photoNotes) = 1
    /\ Len(photoNotes[1]) = 2
    /\ photoNotes[1][1].id = <<"photo", 1>>

\* C7: removePhoto(i) with i < 0 or i >= N changes neither the particle
\* collection, the visual group, the photo list, mode nor focusTarget, and
\* does not notify the observer.
C7_RemoveOutOfRange ==
    [][(last'.op = "removePhoto" /\ ~InRange(last'.index, particleSystem))
       => /\ particleSystem' = particleSystem
          /\ photoMeshGroup' = photoMeshGroup
          /\ uiPhotos' = uiPhotos
          /\ mode' = mode
          /\ focusTarget' = focusTarget
          /\ photoNotes' = <<>>]_vars

\* removePhoto(0) has just been called with no photo left, to no effect
C7_Witness ==
    /\ last.op = "removePhoto" /\ last.index = 0
    /\ Len(PhotoParticles(particleSystem)) = 0
    /\ photoNotes = <<>>

\* C8: a non-null focusTarget is the mesh of a PHOTO particle that is in
\* the particle collection.
C8_FocusTargetIsLivePhoto ==
    focusTarget # Null => focusTarget \in PhotoMeshes(particleSystem)

\* C9: focusTarget # null implies mode = FOCUS (so a cycle that leaves FOCUS
\* clears focusTarget, and focusTarget is set only by a cycle that ends in
\* FOCUS).
C9_FocusTargetOnlyInFocus == focusTarget # Null => mode = "FOCUS"

\* a scatter cycle that started in FOCUS with a focus target has just
\* ended in SCATTER without one
C9_Witness ==
    /\ GestureWithHand
    /\ last.mode = "FOCUS" /\ last.focusTarget # Null
    /\ mode = "SCATTER" /\ focusTarget = Null

\* C10: a gesture cycle without a hand sets hand.detected to false and
\* changes neither hand.x, hand.y, mode, focusTarget, lastFireworkTime nor
\* the fireworks, and notifies nobody; a render tick that starts with
\* hand.detected = false computes the automatic rotation, in every mode.
C10_NoHand ==
    [][/\ (last'.op = "processGestures" /\ Len(last'.result) = 0)
          => /\ ~hand'.detected
             /\ hand'.x = hand.x /\ hand'.y = hand.y
             /\ mode' = mode
             /\ focusTarget' = focusTarget
             /\ lastFireworkTime' = lastFireworkTime
             /\ fireworkSystem' = fireworkSystem
             /\ rotation' = rotation
             /\ spawned' = 0
             /\ modeNotes' = <<>>
       /\ (last'.op = "animate" /\ ~hand.detected)
          => rotation' = AutoRotation(rotation, mode, last'.dt)]_vars

\* a render tick has just run in SCATTER with no hand detected and a stale
\* hand position
C10_Witness ==
    /\ last.op = "animate"
    /\ ~hand.detected
    /\ hand.x # 0
    /\ mode = "SCATTER"

\* C11: a gesture cycle applies the first matching rule only, in the order
\* fist, focus-pinch, peace-fire, scatter-open, hold: a cycle whose hand
\* satisfies the fist or the focus-pinch condition spawns no burst, also
\* when the peace condition holds.
C11_FirstMatchOnly ==
    (GestureWithHand /\ (IsFist(LastHand) \/ IsPinch(LastHand)))
        => spawned = 0

\* no rule of processGestures matches the hand
DeadZone(lm) == ~IsFist(lm) /\ ~IsPinch(lm) /\ ~IsPeace(lm) /\ ~IsOpen(lm)

\* C12: a gesture cycle with a hand that matches none of the fist,
\* focus-pinch, peace and scatter-open conditions leaves mode and
\* focusTarget as they were and calls onModeChange not at all.
C12_DeadZoneHolds ==
    (GestureWithHand /\ DeadZone(LastHand))
        => (/\ mode = last.mode
            /\ focusTarget = last.focusTarget
            /\ modeNotes = <<>>
            /\ spawned = 0)

\* a cycle with every feature on its threshold has just run in FOCUS with
\* a focus target
C12_Witness ==
    /\ GestureWithHand /\ LastHand = PosePinchClosed
    /\ DeadZone(LastHand)
    /\ last.mode = "FOCUS" /\ last.focusTarget # Null
    /\ mode = "FOCUS"

\* C13: a gesture cycle whose hand makes the peace sign and satisfies
\* neither the fist nor the focus-pinch condition leaves mode and
\* focusTarget as they were and notifies nobody, with or without a burst
\* and also when avgDist > 0.4.
C13_PeaceKeepsMode ==
    (GestureWithHand /\ IsPeace(LastHand) /\ ~IsFist(LastHand)
       /\ ~IsPinch(LastHand))
        => (/\ mode = last.mode
            /\ focusTarget = last.focusTarget
            /\ modeNotes = <<>>)

\* a peace cycle with avgDist > 0.4 has just spawned a burst in FOCUS with
\* a focus target
C13_Witness ==
    /\ GestureWithHand /\ IsPeace(LastHand) /\ IsOpen(LastHand)
    /\ ~IsFist(LastHand) /\ ~IsPinch(LastHand)
    /\ spawned = 1
    /\ last.mode = "FOCUS" /\ last.focusTarget # Null
    /\ mode = "FOCUS" /\ focusTarget = last.focusTarget

\* the active firework particles that a tick of dt keeps / ends
Surviving(sys, dt) == {i \in 1 .. Len(sys) : sys[i].life + dt < sys[i].maxLife}

Expiring(sys, dt) == {i \in 1 .. Len(sys) : sys[i].life + dt >= sys[i].maxLife}

\* C14: every active firework particle has life < maxLife <= 1.5 s and its
\* mesh in the scene, undisposed; a render tick adds dt to the life of each
\* and removes exactly those whose life reaches maxLife, taking their mesh
\* out of the scene and disposing each once; a disposed mesh is never
\* active or disposed again; and with render ticks running the active set
\* becomes empty.
C14_FireworkLifecycle ==
    /\ [](/\ \A i \in 1 .. Len(fireworkSystem) :
              /\ fireworkSystem[i].life < fireworkSystem[i].maxLife
              /\ fireworkSystem[i].maxLife <= 1500
          /\ Cardinality(FireworkMeshes(fireworkSystem)) = Len(fireworkSystem)
          /\ scene = FireworkMeshes(fireworkSystem)
          /\ DOMAIN disposed \cap scene = {}
          /\ \A m \in DOMAIN disposed : disposed[m] = 1)
    /\ [][last'.op = "animate" =>
            /\ FireworkMeshes(fireworkSystem') =
                  {fireworkSystem[i].mesh :
                       i \in Surviving(fireworkSystem, last'.dt)}
            /\ \A j \in 1 .. Len(fireworkSystem') :
                  \E i \in Surviving(fireworkSystem, last'.dt) :
                      fireworkSystem'[j] =
                          [fireworkSystem[i] EXCEPT
                              !.life = fireworkSystem[i].life + last'.dt]
            /\ DOMAIN disposed' =
                  DOMAIN disposed \cup
                      {fireworkSystem[i].mesh :
                           i \in Expiring(fireworkSystem, last'.dt)}]_vars
    /\ (fireworkSystem # <<>>) ~> (fireworkSystem = <<>>)

\* a render tick has just ended some particles of a burst and kept the
\* others
C14_Witness ==
    /\ last.op = "animate"
    /\ DOMAIN disposed # {}
    /\ fireworkSystem # <<>>
    /\ \E i \in 1 .. Len(fireworkSystem) : fireworkSystem[i].life = 1000

\* C15: a spawnFirework call appends N particles to the active set with
\* 30 <= N <= 50, for every draw; the particles before stay as they were,
\* and every new one has a mesh of its own, life 0 and the trigger point
\* of the cycle as its place.
C15_BurstSize ==
    [][spawned' = 1 =>
         \E n \in 30 .. 50 :
            /\ Len(fireworkSystem') = Len(fireworkSystem) + n
            /\ SubSeq(fireworkSystem', 1, Len(fireworkSystem)) = fireworkSystem
            /\ \A i \in Len(fireworkSystem) + 1 .. Len(fireworkSystem') :
                  /\ fireworkSystem'[i].life = 0
                  /\ fireworkSystem'[i].center = TriggerPoint(hand')
                  /\ fireworkSystem'[i].mesh \notin scene
                  /\ fireworkSystem'[i].mesh \notin DOMAIN disposed
            /\ Cardinality(FireworkMeshes(fireworkSystem'))
                  = Len(fireworkSystem')]_vars

\* a burst of 50 particles has just been spawned
C15_Witness ==
    /\ spawned = 1
    /\ Len(fireworkSystem) = 50
    /\ \A i \in 1 .. 50 : fireworkSystem[i].life = 0

\* C16: the completion of a photo's load appends one PHOTO particle at the
\* end of the PHOTO-ordered list and of the visual group, keeps every
\* other particle at its place, gives the new particle the supplied id
\* when one was supplied, and notifies the observer once with the list of
\* length N+1.
C16_AddAppends ==
    [][last'.op = "loadComplete" =>
         LET req == last'.result[1]
             before == PhotoParticles(particleSystem)
             after == PhotoParticles(particleSystem')
         IN  /\ Len(after) = Len(before) + 1
             /\ SubSeq(after, 1, Len(before)) = before
             /\ SubSeq(particleSystem', 1, Len(particleSystem))
                   = particleSystem
             /\ Len(particleSystem') = Len(particleSystem) + 1
             /\ after[Len(after)].mesh \notin photoMeshGroup
             /\ photoMeshGroup' =
                   photoMeshGroup \cup {after[Len(after)].mesh}
             /\ req.id # NoId => after[Len(after)].name = req.id
             /\ after[Len(after)].src = req.url
             /\ photoNotes' = <<GetPhotoDataList(particleSystem')>>
             /\ Len(photoNotes'[1]) = Len(before) + 1
             /\ uiPhotos' = photoNotes'[1]]_vars

\* the load of a restored photo has just completed after the load of a
\* photo added later: the list has the default photo, the added photo and
\* the restored photo, in this order
C16_Witness ==
    /\ last.op = "loadComplete"
    /\ last.result[1].id = <<"saved", 1>>
    /\ Len(photoNotes) = 1
    /\ Len(photoNotes[1]) = 3
    /\ photoNotes[1][1].id = DefaultPhotoId
    /\ photoNotes[1][2].id = <<"photo", 2>>
    /\ photoNotes[1][3].id = <<"saved", 1>>

\* a hand that makes the peace sign and matches no mode rule
PeaceOnly(lm) == IsPeace(lm) /\ ~IsFist(lm) /\ ~IsPinch(lm)

\* C19: an operation other than a gesture cycle leaves mode (and its
\* mirror in App) unchanged and calls onModeChange not at all; a render
\* tick also leaves focusTarget, the hand snapshot and lastFireworkTime
\* unchanged; a gesture cycle whose only effect is a spawnFirework call
\* leaves mode unchanged.
C19_ModeOnlyByGestures ==
    [][/\ last'.op # "processGestures"
          => (mode' = mode /\ uiMode' = uiMode /\ modeNotes' = <<>>)
       /\ last'.op = "animate"
          => /\ focusTarget' = focusTarget
             /\ hand' = hand
             /\ lastFireworkTime' = lastFireworkTime
       /\ (/\ last'.op = "processGestures" /\ spawned' = 1
           /\ PeaceOnly(last'.result[1]))
          => mode' = mode]_vars

\* a render tick has just run in FOCUS with a focus target, a detected
\* hand and a burst in the air
C19_Witness ==
    /\ last.op = "animate"
    /\ mode = "FOCUS" /\ focusTarget # Null
    /\ hand.detected
    /\ lastFireworkTime > 0
    /\ fireworkSystem # <<>>

\* C20: the id the photo list reports for a PHOTO particle is the name its
\* mesh got when it was added: the same particle reports the same id before
\* and after every operation and the same id is the same particle, no two
\* particles report one id, a supplied id is the id reported, and getPhotos
\* returns that list.
C20_IdStable ==
    /\ [][\A i \in 1 .. Len(PhotoParticles(particleSystem)),
             j \in 1 .. Len(PhotoParticles(particleSystem')) :
             (PhotoParticles(particleSystem)[i].mesh
                = PhotoParticles(particleSystem')[j].mesh)
             <=> (GetPhotoDataList(particleSystem)[i].id
                    = GetPhotoDataList(particleSystem')[j].id)]_vars
    /\ [](\A i, j \in 1 .. Len(GetPhotoDataList(particleSystem)) :
             GetPhotoDataList(particleSystem)[i].id
               = GetPhotoDataList(particleSystem)[j].id => i = j)
    /\ [][(last'.op = "loadComplete" /\ last'.result[1].id # NoId)
            => photoNotes'[1][Len(photoNotes'[1])].id = last'.result[1].id]_vars
    /\ [](last.op = "getPhotos"
            => last.result = GetPhotoDataList(particleSystem))

\* removePhoto(0) has just removed the default photo; the two photos left
\* report a generated id and a supplied id
C20_Witness ==
    /\ last.op = "removePhoto" /\ last.index = 0
    /\ Len(photoNotes) = 1
    /\ Len(photoNotes[1]) = 2
    /\ photoNotes[1][1].id[1] = "generated"
    /\ photoNotes[1][2].id = <<"photo", 2>>


\* C17: once the cleanup has run, no gesture cycle runs and nothing is
\* notified, no render tick runs, and the visual resource of every firework
\* particle and of every photo particle has been released.
C17_TeardownStops ==
    /\ [][unmounted => (last'.op # "processGestures" /\ modeNotes' = <<>>)]_vars
    /\ [][unmounted => last'.op # "animate"]_vars
    /\ [](unmounted =>
            /\ \A i \in 1 .. Len(fireworkSystem) :
                   fireworkSystem[i].mesh \in DOMAIN disposed
            /\ \A i \in 1 .. Len(PhotoParticles(particleSystem)) :
                   PhotoParticles(particleSystem)[i].mesh \in DOMAIN disposed)

\* no gesture cycle has run and none can: initMediaPipe has not finished
\* or has failed
NoGestureInput == mediaPipe \in {"pending", "failed"}

\* C18: while no gesture cycle runs (initMediaPipe pending or failed), the
\* render tick can always run and computes the automatic rotation of TREE,
\* mode is TREE with focusTarget null and TREE displayed, no hand is
\* detected, and no firework exists or was ever spawned.
C18_NoGestureInput ==
    /\ [](NoGestureInput =>
            /\ mode = "TREE" /\ focusTarget = Null /\ uiMode = "TREE"
            /\ ~hand.detected
            /\ fireworkSystem = <<>> /\ scene = {} /\ burstLog = <<>>
            /\ ENABLED (\E dt \in Dts : Animate(dt)))
    /\ [][(NoGestureInput /\ last'.op = "animate")
            => /\ rotation' = AutoRotation(rotation, "TREE", last'.dt)
               /\ mode' = "TREE" /\ focusTarget' = Null
               /\ fireworkSystem' = <<>>]_vars

\* initMediaPipe has failed and the render loop has ticked MaxFrames times
C18_Witness ==
    /\ mediaPipe = "failed"
    /\ last.op = "animate"
    /\ frames = MaxFrames
    /\ rotation.y > 0

\* C21: a gesture cycle whose hand makes the peace sign at time now spawns
\* a burst and sets lastFireworkTime to now if and only if
\* now - lastFireworkTime >= 500 ms (so also at exactly 500 ms, and in the
\* first such cycle after the mount); otherwise it spawns nothing and
\* leaves lastFireworkTime as it was.
C21_FireAtThreshold ==
    [][(/\ last'.op = "processGestures" /\ Len(last'.result) > 0
        /\ IsPeace(last'.result[1]))
       => /\ (spawned' = 1 /\ lastFireworkTime' = clock')
                <=> (clock' - lastFireworkTime >= DebounceMs)
          /\ spawned' = 0 => lastFireworkTime' = lastFireworkTime]_vars

\* C22: a focus-pinch cycle (not fist) that starts in FOCUS leaves mode
\* FOCUS and the focus target as it was, null or not, whatever photos were
\* added since, and notifies nobody; a step that starts in FOCUS and changes
\* the focus target is a fist or scatter-open cycle that leaves FOCUS.
C22_PinchInFocusHolds ==
    /\ []((/\ GestureWithHand /\ ~IsFist(LastHand) /\ IsPinch(LastHand)
           /\ last.mode = "FOCUS")
          => (/\ mode = "FOCUS"
              /\ focusTarget = last.focusTarget
              /\ modeNotes = <<>>))
    /\ [][(mode = "FOCUS" /\ focusTarget' # focusTarget)
          => (/\ last'.op = "processGestures" /\ Len(last'.result) > 0
              /\ mode' # "FOCUS"
              /\ \/ IsFist(last'.result[1])
                 \/ IsOpen(last'.result[1]) /\ ~IsPeace(last'.result[1]))]_vars

\* a pinch cycle has just run in FOCUS with a null focus target, after a
\* photo was added
C22_Witness ==
    /\ GestureWithHand /\ ~IsFist(LastHand) /\ IsPinch(LastHand)
    /\ last.mode = "FOCUS" /\ last.focusTarget = Null
    /\ Len(PhotoParticles(particleSystem)) > 0
    /\ mode = "FOCUS" /\ focusTarget = Null

\* the particles of a collection that are not dust, by index
NonDust(sys) == {i \in 1 .. Len(sys) : ~sys[i].isDust}

\* C24: a render tick moves the mesh of every non-dust particle by one lerp
\* step towards posTree in TREE and posScatter in SCATTER, both at speed
\* 2.0; in FOCUS towards the focus point at speed 5.0 when the mesh is the
\* focus target, and towards posScatter at speed 2.0 otherwise (so for every
\* particle when the focus target is null).
C24_TargetByMode ==
    [][last'.op = "animate"
       => \A i \in NonDust(particleSystem) :
            LET p == particleSystem[i]
                was == position[p.mesh]
                now == position'[p.mesh]
                step == 2 * last'.dt
            IN  /\ mode = "TREE" => now = Lerp(was, p.posTree, step, 1000)
                /\ mode = "SCATTER" => now = Lerp(was, p.posScatter, step, 1000)
                /\ (mode = "FOCUS" /\ p.mesh = focusTarget)
                      => now = Lerp(was, FocusPoint(matrixWorld),
                                    5 * last'.dt, 1000)
                /\ (mode = "FOCUS" /\ p.mesh # focusTarget)
                      => now = Lerp(was, p.posScatter, step, 1000)
                /\ (mode = "FOCUS" /\ focusTarget = Null)
                      => now = Lerp(was, p.posScatter, step, 1000)]_vars

\* a render tick in FOCUS has just moved the focus target towards the focus
\* point and an ornament towards its posScatter
C24_Witness ==
    /\ last.op = "animate" /\ last.mode = "FOCUS"
    /\ \E i, j \in NonDust(particleSystem) :
          /\ particleSystem[i].mesh = last.focusTarget
          /\ position[particleSystem[i].mesh].z > 0
          /\ particleSystem[j].type = "BOX"
          /\ position[particleSystem[j].mesh] # Vec(0, 0, 0)
          /\ position[particleSystem[j].mesh].z = 0

\* C25: posTree and posScatter of a particle are the values its constructor
\* computed, in every state: no step (render tick in any mode, gesture
\* cycle, photo add or remove) changes them for a particle that stays in
\* the collection.
C25_HomesFixed ==
    /\ [](\A i \in 1 .. Len(particleSystem) :
            /\ particleSystem[i].posTree = TreeSample(particleSystem[i].mesh)
            /\ particleSystem[i].posScatter
                  = ScatterSample(particleSystem[i].mesh,
                                  particleSystem[i].isDust))
    /\ [][\A i \in 1 .. Len(particleSystem), j \in 1 .. Len(particleSystem') :
            particleSystem[i].mesh = particleSystem'[j].mesh
            => /\ particleSystem'[j].posTree = particleSystem[i].posTree
               /\ particleSystem'[j].posScatter
                     = particleSystem[i].posScatter]_vars

\* two render ticks have run, the latest in FOCUS on a photo that is still
\* in the collection, next to a dust particle
C25_Witness ==
    /\ last.op = "animate" /\ last.mode = "FOCUS"
    /\ frames = MaxFrames
    /\ last.focusTarget \in PhotoMeshes(particleSystem)
    /\ \E i \in 1 .. Len(particleSystem) : particleSystem[i].isDust

\* the square of the distance between two points
DistSq(a, b) ==
    (a.x - b.x) * (a.x - b.x) + (a.y - b.y) * (a.y - b.y)
      + (a.z - b.z) * (a.z - b.z)

\* from a to b no coordinate passes that of the target t
NotPast(a, b, t) ==
    /\ (t.x - a.x) * (t.x - b.x) >= 0
    /\ (t.y - a.y) * (t.y - b.y) >= 0
    /\ (t.z - a.z) * (t.z - b.z) >= 0

\* C26 as stated: over a render tick in TREE with 0 < lerpSpeed * dt < 1,
\* the distance of a non-dust particle to posTree does not grow, no
\* coordinate passes posTree, and a particle away from posTree does not
\* arrive at posTree.
C26_NeverArrives ==
    [][(last'.op = "animate" /\ mode = "TREE" /\ 2 * last'.dt > 0
        /\ 2 * last'.dt < 1000)
       => \A i \in NonDust(particleSystem) :
            LET p == particleSystem[i]
                was == position[p.mesh]
                now == position'[p.mesh]
            IN  /\ DistSq(now, p.posTree) <= DistSq(was, p.posTree)
                /\ NotPast(was, now, p.posTree)
                /\ was # p.posTree => now # p.posTree]_vars

\* C26: over a render tick in TREE with 0 < lerpSpeed * dt < 1, the
\* distance of a non-dust particle to posTree does not grow and no
\* coordinate passes posTree.
C26_Approach ==
    [][(last'.op = "animate" /\ mode = "TREE" /\ 2 * last'.dt > 0
        /\ 2 * last'.dt < 1000)
       => \A i \in NonDust(particleSystem) :
            LET p == particleSystem[i]
                was == position[p.mesh]
                now == position'[p.mesh]
            IN  /\ DistSq(now, p.posTree) <= DistSq(was, p.posTree)
                /\ NotPast(was, now, p.posTree)]_vars

\* a render tick with lerpSpeed * dt = 0.2 has just left an ornament where
\* it was, two thousandths short of posTree
C26_Witness ==
    /\ last.op = "animate" /\ last.dt = 100
    /\ \E i \in NonDust(particleSystem) :
          /\ DistSq(position[particleSystem[i].mesh],
                    particleSystem[i].posTree) > 0
          /\ DistSq(position[particleSystem[i].mesh],
                    particleSystem[i].posTree) <= 12
          /\ MovedBy(particleSystem[i], 100)
                = position[particleSystem[i].mesh]

\* inside a gesture cycle the focus target is written and the mode is not:
\* the pair (mode, focusTarget) belongs to no completed cycle
Torn == cycle # Idle /\ cycle # mode

\* C23: a render tick never starts inside a gesture cycle: it starts with
\* the mode, the focus target and the hand as the latest completed cycle
\* left them, and moves every particle by the update for that one pair.
C23_NoTornTick ==
    [][last'.op = "animate"
       => /\ cycle = Idle
          /\ ~Torn
          /\ last'.mode = mode /\ last'.focusTarget = focusTarget
          /\ \A i \in 1 .. Len(particleSystem) :
                position'[particleSystem[i].mesh]
                  = MovedBy(particleSystem[i], last'.dt)]_vars

\* a fist cycle that started in FOCUS has cleared the focus target and not
\* yet stored TREE, after a render tick has run
C23_Witness ==
    /\ Torn
    /\ mode = "FOCUS" /\ cycle = "TREE" /\ focusTarget = Null
    /\ last.op = "processGesturesBegin" /\ last.focusTarget # Null
    /\ frames > 0

\* C27: in every state the list last delivered to onPhotosChange, which is
\* App's photos state, is the list getPhotos returns: every step that
\* changes the PHOTO particles (the completion of an add, a remove in
\* range) delivers the new list, and so did the mount with the default
\* photo.
C27_ObserverInSync ==
    /\ [](uiPhotos = GetPhotoDataList(particleSystem))
    /\ [](last.op = "getPhotos" => last.result = uiPhotos)
    /\ [](last.op = "mount" => photoNotes = <<GetPhotoDataList(particleSystem)>>)
    /\ [][PhotoParticles(particleSystem') # PhotoParticles(particleSystem)
          => /\ photoNotes' = <<GetPhotoDataList(particleSystem')>>
             /\ uiPhotos' = photoNotes'[1]]_vars

\* getPhotos has just returned two added photos, after the default photo
\* was removed
C27_Witness ==
    /\ last.op = "getPhotos"
    /\ Len(last.result) = 2
    /\ last.result[1].id # DefaultPhotoId
    /\ last.result = uiPhotos

\* the ids of a list of photos
IdsOf(photos) == {photos[i].id : i \in 1 .. Len(photos)}

\* the photo particles an operation took out of the scene
RemovedPhotos(before, after) ==
    {PhotoParticles(before)[i] : i \in 1 .. Len(PhotoParticles(before))}
      \ {PhotoParticles(after)[i] : i \in 1 .. Len(PhotoParticles(after))}

\* the operations that run handleDeletePhoto
Deletions == {"handleDeletePhoto", "handleClearAllPhotos"}

\* C28: a deletion issued from the UI (a delete button, or an iteration of
\* the clear-all loop) deletes from the store the record of the very photo
\* it removes from the scene, never the record of another photo, for every
\* interleaving of deletions, add completions and renders.
C28_SameRecord ==
    [][last'.op \in Deletions =>
         \A p \in RemovedPhotos(particleSystem, particleSystem') :
             /\ last'.result # <<>>
             /\ last'.result[1].id = p.name]_vars

\* the indices n - 1, ..., 0
Descending(n) == [j \in 1 .. n |-> n - j]

\* C29: a confirmed clear-all started on a list of N photos, with no other
\* deletion issued while it runs, ends; it has then called the deletion on
\* the indices N - 1 down to 0, the scene holds none of the N photos and the
\* store holds none of their records; and scene and store stay in sync, as
\* no deletion of the run takes from the scene a photo that is not one of
\* the N (whose record would stay behind), in particular not one whose load
\* completes during the run.
C29_ClearAll ==
    /\ clearAll.running ~> ~clearAll.running
    /\ []((~clearAll.running /\ clearAll.k > 0 /\ clearAll.alone)
            => /\ clearAll.calls = Descending(Len(clearAll.photos))
               /\ IdsOf(clearAll.photos)
                    \cap IdsOf(GetPhotoDataList(particleSystem)) = {}
               /\ IdsOf(clearAll.photos) \cap db = {})
    /\ [][(last'.op = "handleClearAllPhotos" /\ clearAll'.alone)
            => \A p \in RemovedPhotos(particleSystem, particleSystem') :
                  p.name \in IdsOf(clearAll'.photos)]_vars

\* the rank of a supplied id among the requests of its kind: the number of
\* the addPhoto call of an upload, the place in the restored list
RequestRank(id) == id[2]

\* C30: the PHOTO list follows the order in which the adds were requested:
\* of two uploads, or of two entries of one restorePhotos call, the one
\* requested first comes first once both are present, whatever the order in
\* which their texture loads complete.
C30_RequestOrder ==
    \A i, j \in 1 .. Len(GetPhotoDataList(particleSystem)) :
        LET a == GetPhotoDataList(particleSystem)[i].id
            b == GetPhotoDataList(particleSystem)[j].id
        IN  (i < j /\ a[1] = b[1] /\ a[1] \in {"photo", "saved"})
               => RequestRank(a) < RequestRank(b)

====
